---------------------------- MODULE Spec2Model ----------------------------
(***************************************************************************)
(* Model of the ARGO dashboard's MapView component                         *)
(* (src/frontend/src/components/MapView.tsx): the float search matcher,    *)
(* the year-token date override, and the two React effects that fetch the  *)
(* float locations and filter them.                                        *)
(*                                                                         *)
(* Strings are sequences of one-character strings.  Coordinates are        *)
(* integers in hundredths of a degree.  Dates 'YYYY-MM-DD' are the         *)
(* integer YYYYMMDD, which orders the same way as the ISO text.  An        *)
(* optional value (cycle, time, a query parameter) is <<>> when absent     *)
(* (null) and <<v>> when present.                                          *)
(***************************************************************************)
EXTENDS Integers, Sequences, FiniteSets, TLC

VARIABLES argoFloats, filteredFloats, loading, error, searchTerm,
          startDate, endDate,
          inflight, fetchEffectPending, filterEffectDeps,
          showDateFilter, db, edits,
          chatMessages, inputMessage, isTyping, chatInflight, compact

vars == <<argoFloats, filteredFloats, loading, error, searchTerm,
          startDate, endDate,
          inflight, fetchEffectPending, filterEffectDeps,
          showDateFilter, db, edits,
          chatMessages, inputMessage, isTyping, chatInflight, compact>>

\* The state of App and of the ChatPanel it shows
chatVars == <<chatMessages, inputMessage, isTyping, chatInflight, compact>>

\* The state of MapView, with the records behind its endpoint
mapVars == <<argoFloats, filteredFloats, loading, error, searchTerm,
             startDate, endDate,
             inflight, fetchEffectPending, filterEffectDeps,
             showDateFilter, db>>

(***************************************************************************)
(* Bounds of the model                                                     *)
(***************************************************************************)
MaxEdits == 3

MaxInFlight == 2

(***************************************************************************)
(* JavaScript string and number primitives                                 *)
(***************************************************************************)
Abs(x) == IF x < 0 THEN -x ELSE x

Deg(n) == n * 100

MinOf(S) == CHOOSE x \in S : \A y \in S : x <= y

MaxOf(S) == CHOOSE x \in S : \A y \in S : x >= y

UpperToLower ==
    ("A" :> "a") @@ ("B" :> "b") @@ ("C" :> "c") @@ ("D" :> "d") @@
    ("E" :> "e") @@ ("F" :> "f") @@ ("G" :> "g") @@ ("H" :> "h") @@
    ("I" :> "i") @@ ("J" :> "j") @@ ("K" :> "k") @@ ("L" :> "l") @@
    ("M" :> "m") @@ ("N" :> "n") @@ ("O" :> "o") @@ ("P" :> "p") @@
    ("Q" :> "q") @@ ("R" :> "r") @@ ("S" :> "s") @@ ("T" :> "t") @@
    ("U" :> "u") @@ ("V" :> "v") @@ ("W" :> "w") @@ ("X" :> "x") @@
    ("Y" :> "y") @@ ("Z" :> "z")

LowerToUpper ==
    [c \in {UpperToLower[u] : u \in DOMAIN UpperToLower} |->
        CHOOSE u \in DOMAIN UpperToLower : UpperToLower[u] = c]

DigitChars == <<"0", "1", "2", "3", "4", "5", "6", "7", "8", "9">>

IsDigit(c) == \E i \in 1..10 : DigitChars[i] = c

DigitVal(c) == (CHOOSE i \in 1..10 : DigitChars[i] = c) - 1

\* \w of a JavaScript regular expression: [A-Za-z0-9_]
IsWordChar(c) ==
    \/ c \in DOMAIN UpperToLower
    \/ c \in DOMAIN LowerToUpper
    \/ IsDigit(c)
    \/ c = "_"

IsSpace(c) == c = " "

\* String.prototype.toLowerCase
ToLowerCase(s) ==
    [i \in 1..Len(s) |->
        IF s[i] \in DOMAIN UpperToLower THEN UpperToLower[s[i]] ELSE s[i]]

\* String.prototype.toUpperCase
ToUpperCase(s) ==
    [i \in 1..Len(s) |->
        IF s[i] \in DOMAIN LowerToUpper THEN LowerToUpper[s[i]] ELSE s[i]]

\* String.prototype.trim
Trim(s) ==
    LET keep == {i \in 1..Len(s) : ~IsSpace(s[i])}
    IN  IF keep = {} THEN <<>> ELSE SubSeq(s, MinOf(keep), MaxOf(keep))

\* String.prototype.includes
Includes(hay, needle) ==
    \E i \in 0..(Len(hay) - Len(needle)) :
        SubSeq(hay, i + 1, i + Len(needle)) = needle

\* Number.prototype.toString of a non-negative integer
RECURSIVE NatToString(_)
NatToString(n) ==
    IF n < 10 THEN <<DigitChars[n + 1]>>
    ELSE Append(NatToString(n \div 10), DigitChars[(n % 10) + 1])

\* Number.prototype.toString of an integer
IntToString(n) ==
    IF n < 0 THEN <<"-">> \o NatToString(-n) ELSE NatToString(n)

\* Number.prototype.toFixed(0) of x hundredths: the sign is split off and the
\* magnitude is rounded to the nearest integer, a tie going to the larger one
\* (so -0.4 formats as "-0").
ToFixed0(x) ==
    (IF x < 0 THEN <<"-">> ELSE <<>>) \o NatToString((Abs(x) + 50) \div 100)

\* Number.prototype.toFixed(1) of x hundredths
ToFixed1(x) ==
    LET tenths == (Abs(x) + 5) \div 10
    IN  (IF x < 0 THEN <<"-">> ELSE <<>>)
            \o NatToString(tenths \div 10) \o <<".">>
            \o NatToString(tenths % 10)

\* The hundredths whose binary double rounds as the decimal does: a tie in
\* toFixed(1) (hundredths digit 5) is decided by the decimal value only when
\* the value is a multiple of 0.25.
ExactCoord(x) == (Abs(x) % 10 = 5) => (Abs(x) % 25 = 0)

(***************************************************************************)
(* Search keywords (MapView.tsx lines 108-125)                             *)
(***************************************************************************)
kwAtlantic == <<"a", "t", "l", "a", "n", "t", "i", "c">>

kwPacific == <<"p", "a", "c", "i", "f", "i", "c">>

kwIndian == <<"i", "n", "d", "i", "a", "n">>

kwNorth == <<"n", "o", "r", "t", "h">>

kwArctic == <<"a", "r", "c", "t", "i", "c">>

kwSouth == <<"s", "o", "u", "t", "h">>

kwAntarctic == <<"a", "n", "t", "a", "r", "c", "t", "i", "c">>

kwEquatorial == <<"e", "q", "u", "a", "t", "o", "r", "i", "a", "l">>

kwEquator == <<"e", "q", "u", "a", "t", "o", "r">>

(***************************************************************************)
(* The search matcher: the callback of argoFloats.filter, lines 96-130     *)
(***************************************************************************)
\* line 98
IdRule(float, term) == Includes(ToLowerCase(float.id), term)

\* line 101 with a space after the comma
CoordString1_Spaced(float) ==
    ToFixed1(float.lat) \o <<",", " ">> \o ToFixed1(float.lon)

\* lines 101-102
CoordString1(float) == ToFixed1(float.lat) \o <<",">> \o ToFixed1(float.lon)

CoordString0(float) == ToFixed0(float.lat) \o <<",">> \o ToFixed0(float.lon)

CoordRule(float, term) ==
    \/ Includes(CoordString1(float), term)
    \/ Includes(CoordString0(float), term)

\* line 105: float.cycle && ...; null and 0 are both falsy
CycleTruthy(float) == float.cycle # <<>> /\ float.cycle[1] # 0

CycleRule(float, term) ==
    /\ CycleTruthy(float)
    /\ Includes(IntToString(float.cycle[1]), term)

\* line 109
InAtlantic(float) ==
    /\ float.lon >= Deg(-70)
    /\ float.lon <= Deg(20)
    /\ Abs(float.lat) <= Deg(60)

\* line 112 with strict longitude bounds
InPacific_Strict(float) ==
    /\ (float.lon > Deg(120) \/ float.lon < Deg(-70))
    /\ Abs(float.lat) <= Deg(60)

\* line 112
InPacific(float) ==
    /\ (float.lon >= Deg(120) \/ float.lon <= Deg(-70))
    /\ Abs(float.lat) <= Deg(60)

\* line 115 with the latitude bound of the other two boxes
InIndian_Symmetric(float) ==
    /\ float.lon >= Deg(20)
    /\ float.lon <= Deg(120)
    /\ Abs(float.lat) <= Deg(60)

\* line 115
InIndian(float) ==
    /\ float.lon >= Deg(20)
    /\ float.lon <= Deg(120)
    /\ float.lat >= Deg(-60)
    /\ float.lat <= Deg(30)

\* line 120
InNorth(float) == float.lat > Deg(23)

\* line 123
InSouth(float) == float.lat < Deg(-23)

\* line 126 with a strict comparison
InEquatorial_Strict(float) == Abs(float.lat) < Deg(23)

\* line 126
InEquatorial(float) == Abs(float.lat) <= Deg(23)

\* line 119 with 'arctic' tested by includes
NorthTerm_Includes(term) ==
    Includes(term, kwNorth) \/ Includes(term, kwArctic)

\* lines 119, 122, 125: the conditions of the latitude-band branches
NorthTerm(term) == Includes(term, kwNorth) \/ term = kwArctic

\* line 122 with 'south' tested by equality, as 'antarctic' is
SouthTerm_Exact(term) == term = kwSouth \/ term = kwAntarctic

SouthTerm(term) == Includes(term, kwSouth) \/ term = kwAntarctic

EquatorialTerm(term) == Includes(term, kwEquatorial) \/ term = kwEquator

\* lines 107-129: the chain of keyword branches, each returning its predicate
KeywordRule(float, term) ==
    IF Includes(term, kwAtlantic) THEN InAtlantic(float)
    ELSE IF Includes(term, kwPacific) THEN InPacific(float)
    ELSE IF Includes(term, kwIndian) THEN InIndian(float)
    ELSE IF NorthTerm(term) THEN InNorth(float)
    ELSE IF SouthTerm(term) THEN InSouth(float)
    ELSE IF EquatorialTerm(term) THEN InEquatorial(float)
    ELSE FALSE

\* lines 96-130
Matches(float, term) ==
    IF IdRule(float, term) THEN TRUE
    ELSE IF CoordRule(float, term) THEN TRUE
    ELSE IF CycleRule(float, term) THEN TRUE
    ELSE KeywordRule(float, term)

\* Array.prototype.filter, building the result back to front
RECURSIVE FilterSeq_Reversed(_, _)
FilterSeq_Reversed(floats, term) ==
    IF floats = <<>> THEN <<>>
    ELSE LET rest == FilterSeq_Reversed(Tail(floats), term)
         IN  IF Matches(Head(floats), term) THEN rest \o <<Head(floats)>>
             ELSE rest

\* Array.prototype.filter
RECURSIVE FilterSeq(_, _)
FilterSeq(floats, term) ==
    IF floats = <<>> THEN <<>>
    ELSE LET rest == FilterSeq(Tail(floats), term)
         IN  IF Matches(Head(floats), term) THEN <<Head(floats)>> \o rest
             ELSE rest

\* lines 92-132 with the term tested and matched untrimmed
ComputeFiltered_NoTrim(floats, rawTerm) ==
    IF rawTerm = <<>> THEN floats
    ELSE FilterSeq(floats, ToLowerCase(rawTerm))

\* lines 92-132 with the term matched in the case it was typed in
ComputeFiltered_NoLowerCase(floats, rawTerm) ==
    IF Trim(rawTerm) = <<>> THEN floats
    ELSE FilterSeq(floats, Trim(rawTerm))

\* lines 92-132: the value passed to setFilteredFloats
ComputeFiltered(floats, rawTerm) ==
    IF Trim(rawTerm) = <<>> THEN floats
    ELSE FilterSeq(floats, Trim(ToLowerCase(rawTerm)))

(***************************************************************************)
(* Year token of the search term, lines 40-50                              *)
(***************************************************************************)
\* /\b(20\d{2})\b/ matches at position i of the raw term
YearMatchAt(term, i) ==
    /\ i + 3 <= Len(term)
    /\ term[i] = "2"
    /\ term[i + 1] = "0"
    /\ IsDigit(term[i + 2])
    /\ IsDigit(term[i + 3])
    /\ (i = 1 \/ ~IsWordChar(term[i - 1]))
    /\ (i + 3 = Len(term) \/ ~IsWordChar(term[i + 4]))

\* `${year}-01-01` and `${year}-12-31` for the year matched at position i
YearRangeAt(term, i) ==
    LET year == 2000 + 10 * DigitVal(term[i + 2]) + DigitVal(term[i + 3])
    IN  [startDate |-> year * 10000 + 101, endDate |-> year * 10000 + 1231]

\* line 41 with the pattern /(20\d{2})/, no \b around it
extractDateFilterFromSearch_NoBoundary(term) ==
    LET hits == {i \in 1..(Len(term) - 3) :
                    /\ term[i] = "2"
                    /\ term[i + 1] = "0"
                    /\ IsDigit(term[i + 2])
                    /\ IsDigit(term[i + 3])}
    IN  IF hits = {} THEN <<>> ELSE <<YearRangeAt(term, MinOf(hits))>>

\* null (<<>>) or the range of the leftmost match
extractDateFilterFromSearch(term) ==
    LET hits == {i \in 1..Len(term) : YearMatchAt(term, i)}
    IN  IF hits = {} THEN <<>> ELSE <<YearRangeAt(term, MinOf(hits))>>

(***************************************************************************)
(* The locations request and the endpoint answering it                     *)
(***************************************************************************)
DefaultStartDate == 20150101

DefaultEndDate == 20241231

\* lines 56-58 with one test for the two parameters
BuildParams_Together(start, end) ==
    LET narrowed == start # DefaultStartDate \/ end # DefaultEndDate
    IN  [start_date |-> IF narrowed THEN <<start>> ELSE <<>>,
         end_date   |-> IF narrowed THEN <<end>> ELSE <<>>]

\* lines 56-58: the URLSearchParams of the request
BuildParams(start, end) ==
    [start_date |-> IF start # DefaultStartDate THEN <<start>> ELSE <<>>,
     end_date   |-> IF end # DefaultEndDate THEN <<end>> ELSE <<>>]

\* The range the endpoint applies: an absent parameter takes the default.
RequestedStart(req) ==
    IF req.start_date = <<>> THEN DefaultStartDate ELSE req.start_date[1]

RequestedEnd(req) ==
    IF req.end_date = <<>> THEN DefaultEndDate ELSE req.end_date[1]

\* The endpoint rejects a range whose start is after its end.
ValidRange(req) == RequestedStart(req) <= RequestedEnd(req)

\* TemporalFilter of one record: a record without time passes only when no
\* date parameter was sent.
InRange(float, req) ==
    IF float.time = <<>>
    THEN req.start_date = <<>> /\ req.end_date = <<>>
    ELSE /\ RequestedStart(req) <= float.time[1]
         /\ float.time[1] <= RequestedEnd(req)

\* data.floats of a successful response
RECURSIVE LocationsResponse(_, _)
LocationsResponse(records, req) ==
    IF records = <<>> THEN <<>>
    ELSE LET rest == LocationsResponse(Tail(records), req)
         IN  IF InRange(Head(records), req) THEN <<Head(records)>> \o rest
             ELSE rest

(***************************************************************************)
(* Float records, search terms and dates the model draws from              *)
(***************************************************************************)
Null == "null"

Float(id, lat, lon, cycle, time) ==
    [id |-> id, lat |-> lat, lon |-> lon, cycle |-> cycle, time |-> time,
     status |-> "active"]

tEmpty == <<>>

tBlank == <<" ", " ">>

tPacific == <<"p", "a", "c", "i", "f", "i", "c">>

tAtlantic == <<"a", "t", "l", "a", "n", "t", "i", "c">>

tIndian == <<"i", "n", "d", "i", "a", "n">>

tNorth == <<"n", "o", "r", "t", "h">>

tSouth == <<"s", "o", "u", "t", "h">>

tEquatorial == <<"e", "q", "u", "a", "t", "o", "r", "i", "a", "l">>

tSouthern == <<"s", "o", "u", "t", "h", "e", "r", "n">>

tTheArctic == <<"t", "h", "e", " ", "a", "r", "c", "t", "i", "c">>

tNorthPacific ==
    <<"n", "o", "r", "t", "h", " ", "p", "a", "c", "i", "f", "i", "c">>

tSouthAtlantic ==
    <<"s", "o", "u", "t", "h", " ", "a", "t", "l", "a", "n", "t", "i", "c">>

tAtlanticPacific ==
    <<"a", "t", "l", "a", "n", "t", "i", "c", " ",
      "p", "a", "c", "i", "f", "i", "c">>

tPacificIndian ==
    <<"p", "a", "c", "i", "f", "i", "c", " ", "i", "n", "d", "i", "a", "n">>

tNorthSouth == <<"n", "o", "r", "t", "h", " ", "s", "o", "u", "t", "h">>

tSouthEquatorial ==
    <<"s", "o", "u", "t", "h", " ",
      "e", "q", "u", "a", "t", "o", "r", "i", "a", "l">>

tUpperPacific == <<"P", "A", "C", "I", "F", "I", "C">>

tPaddedPacific == <<" ", "p", "a", "c", "i", "f", "i", "c", " ">>

tMixedNorth == <<"N", "o", "r", "t", "h", " ">>

tWmo2021 == <<"w", "m", "o", "_", "2", "0", "2", "1">>

tUpperWmo == <<"W", "M", "O", "_", "2", "0", "2", "1">>

tPac == <<"_", "p", "a", "c", "_">>

tCycle42 == <<"4", "2">>

tZero == <<"0">>

tFour == <<"4">>

tCoord == <<"3", "0", ",", "-", "3", "5">>

tNoMatch == <<"x", "y", "z">>

tCoordOneDecimal == <<"5", ".", "6", ",", "-", "1", "4", "2", ".", "8">>

tCoordRounded == <<"1", "1", ".", "3", ",", "2", "2", ".", "3">>

tCoordSpace == <<"3", "0", ",", " ", "-", "3", "5">>

tYear2021 == <<"2", "0", "2", "1">>

tYear2022 == <<"2", "0", "2", "2">>

tPacific2022 ==
    <<"p", "a", "c", "i", "f", "i", "c", " ", "2", "0", "2", "2">>

tYear20215 == <<"2", "0", "2", "1", "5">>

tXYear2021 == <<"x", "2", "0", "2", "1">>

tTwoYears == <<"2", "0", "2", "1", " ", "2", "0", "2", "2">>

tGluedThenYear == <<"x", "2", "0", "2", "1", " ", "2", "0", "2", "2">>

tYearMonth == <<"2", "0", "2", "1", "-", "0", "6">>

tYear1999 == <<"1", "9", "9", "9">>

tYear2100 == <<"2", "1", "0", "0">>

tYear2099 == <<"2", "0", "9", "9">>

tYear2000 == <<"2", "0", "0", "0">>

tYearInParens == <<"(", "2", "0", "2", "2", ")">>

tOldThenYear == <<"1", "9", "9", "9", " ", "2", "0", "2", "2">>

idPac042 ==
    <<"W", "M", "O", "_", "2", "0", "2", "1", "_",
      "P", "A", "C", "_", "0", "4", "2">>

idWmo152 == <<"W", "M", "O", "_", "1", "_", "5", "2">>

idArctic9 == <<"A", "r", "c", "t", "i", "c", "_", "9">>

idWmo37 == <<"w", "m", "o", "_", "3", "_", "7">>

idWmo38 == <<"w", "m", "o", "_", "3", "_", "8">>

\* The two records of the scenario of spec.md section 8
floatA == Float(<<"A">>, Deg(10), Deg(-140), <<5>>, <<20200601>>)

floatB == Float(<<"B">>, Deg(-40), Deg(0), <<9>>, <<20210601>>)

\* The record of the data-format example (coordinates to two decimals)
floatPac042 == Float(idPac042, 2563, -14284, <<42>>, <<20210615>>)

\* cycle 0; neither the id nor the coordinate strings contain a "0"
floatCycle0 == Float(idWmo37, 1125, 2225, <<0>>, <<20220310>>)

\* no cycle and no time
floatNoCycle == Float(idWmo38, -6575, 2225, <<>>, <<>>)

floatCycle420 == Float(idWmo152, 3000, -3500, <<420>>, <<20210105>>)

floatArctic9 == Float(idArctic9, Deg(-50), Deg(100), <<7>>, <<20230801>>)

\* What the endpoint holds, in the full model
DBs ==
    { <<floatA, floatB, floatPac042, floatCycle0, floatNoCycle>>,
      <<floatArctic9, floatPac042, floatCycle420, floatA>> }

\* Terms typed in the full model
Terms ==
    { tBlank, tYear2021, tPacific2022, tWmo2021, tNorthPacific, tZero }

\* Dates picked in the two date inputs
UserStartDates == { 20200101, 20230101 }

UserEndDates == { 20211231 }

\* The message of a failed fetch (line 64; lines 71 and 75 give other texts,
\* which no step of the component tells apart)
ErrorMessages == { "Failed to fetch: 500" }

InvalidRangeMessage == "Failed to fetch: 400"

(***************************************************************************)
(* MapView state machine                                                   *)
(***************************************************************************)
\* The dependencies of the filter effect (line 133) that changed since it
\* last ran; the effect is scheduled when there is one.
filterEffectPending == filterEffectDeps # {}

\* React flushes the effects of a commit before it handles any other event.
EffectsPending == fetchEffectPending \/ filterEffectPending

\* All effects have run and no fetch is in flight.
Quiescent == ~EffectsPending /\ inflight = <<>>

\* App.tsx: the greeting chatMessages starts with
txtGreeting ==
    << "H", "e", "l", "l", "o", "!", " ", "I", "'", "m", " ", "N", "e", "r",
       "i", "d", "a", ",", " ", "y", "o", "u", "r", " ", "f", "r", "i", "e",
       "n", "d", "l", "y", " ", "A", "I", " ", "o", "c", "e", "a", "n", "o",
       "g", "r", "a", "p", "h", "e", "r", ".", " ", "I", "'", "m", " ", "h",
       "e", "r", "e", " ", "t", "o", " ", "h", "e", "l", "p", " ", "y", "o",
       "u", " ", "e", "x", "p", "l", "o", "r", "e", " ", "A", "R", "G", "O",
       " ", "f", "l", "o", "a", "t", " ", "d", "a", "t", "a", ".", " ", "W",
       "h", "a", "t", " ", "w", "o", "u", "l", "d", " ", "y", "o", "u", " ",
       "l", "i", "k", "e", " ", "t", "o", " ", "d", "i", "s", "c", "o", "v",
       "e", "r", " ", "a", "b", "o", "u", "t", " ", "o", "u", "r", " ", "o",
       "c", "e", "a", "n", "s", " ", "t", "o", "d", "a", "y", "?" >>

\* The Message interface, without the timestamp, which nothing reads back
ChatMessage(id, sender, message) ==
    [id |-> id, sender |-> sender, message |-> message]

\* App.tsx useState of chatMessages; ChatPanel.tsx lines 220-221
InitChatPanel(isCompact) ==
    /\ chatMessages = <<ChatMessage(1, "nerida", txtGreeting)>>
    /\ inputMessage = <<>>
    /\ isTyping = FALSE
    /\ chatInflight = <<>>
    /\ compact = isCompact

\* lines 25-33 and the first commit: both effects are scheduled
InitView ==
    /\ argoFloats = <<>>
    /\ filteredFloats = <<>>
    /\ loading = TRUE
    /\ error = Null
    /\ searchTerm = <<>>
    /\ startDate = DefaultStartDate
    /\ endDate = DefaultEndDate
    /\ inflight = <<>>
    /\ fetchEffectPending = TRUE
    /\ filterEffectDeps = {"searchTerm", "argoFloats"}
    /\ showDateFilter = FALSE
    /\ edits = 0

\* MapView is shown beside the compact chat panel of the sidebar
Init == InitView /\ db \in DBs /\ InitChatPanel(TRUE)

\* lines 52-82 up to the await of line 62: the request is sent
FetchEffect ==
    /\ fetchEffectPending
    /\ fetchEffectPending' = FALSE
    /\ inflight' = Append(inflight, BuildParams(startDate, endDate))
    /\ UNCHANGED <<argoFloats, filteredFloats, loading, error, searchTerm,
                   startDate, endDate, filterEffectDeps, db, chatVars,
                   showDateFilter, edits>>

\* lines 85-133, the year applied only over the default range
FilterEffect_KeepsChosenRange ==
    /\ filterEffectPending
    /\ ~fetchEffectPending
    /\ LET dateFilters == extractDateFilterFromSearch(searchTerm)
           apply == /\ dateFilters # <<>>
                    /\ startDate = DefaultStartDate
                    /\ endDate = DefaultEndDate
           newStart == IF apply THEN dateFilters[1].startDate ELSE startDate
           newEnd == IF apply THEN dateFilters[1].endDate ELSE endDate
       IN  /\ startDate' = newStart
           /\ endDate' = newEnd
           /\ fetchEffectPending' = (newStart # startDate \/ newEnd # endDate)
    /\ filteredFloats' = ComputeFiltered(argoFloats, searchTerm)
    /\ filterEffectDeps' = {}
    /\ UNCHANGED <<argoFloats, loading, error, searchTerm, inflight, db,
                   chatVars, showDateFilter, edits>>

\* lines 85-133, the year token consumed: the term is cleared once applied
FilterEffect_ConsumesYear ==
    /\ filterEffectPending
    /\ ~fetchEffectPending
    /\ LET dateFilters == extractDateFilterFromSearch(searchTerm)
           newStart == IF dateFilters # <<>> THEN dateFilters[1].startDate
                       ELSE startDate
           newEnd == IF dateFilters # <<>> THEN dateFilters[1].endDate
                     ELSE endDate
       IN  /\ startDate' = newStart
           /\ endDate' = newEnd
           /\ fetchEffectPending' = (newStart # startDate \/ newEnd # endDate)
           /\ searchTerm' = IF dateFilters # <<>> THEN <<>> ELSE searchTerm
    /\ filteredFloats' = ComputeFiltered(argoFloats, searchTerm)
    /\ filterEffectDeps' = {}
    /\ UNCHANGED <<argoFloats, loading, error, inflight, db, chatVars,
                   showDateFilter, edits>>

\* lines 85-133 with an empty result of a non-blank term reported as an error
FilterEffect_ErrorOnEmpty ==
    /\ filterEffectPending
    /\ ~fetchEffectPending
    /\ LET dateFilters == extractDateFilterFromSearch(searchTerm)
           newStart == IF dateFilters # <<>> THEN dateFilters[1].startDate
                       ELSE startDate
           newEnd == IF dateFilters # <<>> THEN dateFilters[1].endDate
                     ELSE endDate
       IN  /\ startDate' = newStart
           /\ endDate' = newEnd
           /\ fetchEffectPending' = (newStart # startDate \/ newEnd # endDate)
    /\ filteredFloats' = ComputeFiltered(argoFloats, searchTerm)
    /\ error' = IF Trim(searchTerm) # <<>>
                     /\ ComputeFiltered(argoFloats, searchTerm) = <<>>
                THEN "No floats found" ELSE error
    /\ filterEffectDeps' = {}
    /\ UNCHANGED <<argoFloats, loading, searchTerm, inflight, db, chatVars,
                   showDateFilter, edits>>

\* lines 85-133 with setStartDate/setEndDate of an equal value counted as a
\* change (as for a range held in a fresh object)
FilterEffect_AlwaysRefetches ==
    /\ filterEffectPending
    /\ ~fetchEffectPending
    /\ LET dateFilters == extractDateFilterFromSearch(searchTerm)
           newStart == IF dateFilters # <<>> THEN dateFilters[1].startDate
                       ELSE startDate
           newEnd == IF dateFilters # <<>> THEN dateFilters[1].endDate
                     ELSE endDate
       IN  /\ startDate' = newStart
           /\ endDate' = newEnd
           /\ fetchEffectPending' = (dateFilters # <<>>)
    /\ filteredFloats' = ComputeFiltered(argoFloats, searchTerm)
    /\ filterEffectDeps' = {}
    /\ UNCHANGED <<argoFloats, loading, error, searchTerm, inflight, db,
                   chatVars, showDateFilter, edits>>

\* lines 85-133 with an else branch that puts the default range back when
\* the term carries no year
FilterEffect_ResetsRange ==
    /\ filterEffectPending
    /\ ~fetchEffectPending
    /\ LET dateFilters == extractDateFilterFromSearch(searchTerm)
           newStart == IF dateFilters # <<>> THEN dateFilters[1].startDate
                       ELSE DefaultStartDate
           newEnd == IF dateFilters # <<>> THEN dateFilters[1].endDate
                     ELSE DefaultEndDate
       IN  /\ startDate' = newStart
           /\ endDate' = newEnd
           /\ fetchEffectPending' = (newStart # startDate \/ newEnd # endDate)
    /\ filteredFloats' = ComputeFiltered(argoFloats, searchTerm)
    /\ filterEffectDeps' = {}
    /\ UNCHANGED <<argoFloats, loading, error, searchTerm, inflight, db,
                   chatVars, showDateFilter, edits>>

\* lines 85-133 with the year applied to the start date only (line 89,
\* setEndDate, left out)
FilterEffect_StartOnly ==
    /\ filterEffectPending
    /\ ~fetchEffectPending
    /\ LET dateFilters == extractDateFilterFromSearch(searchTerm)
           newStart == IF dateFilters # <<>> THEN dateFilters[1].startDate
                       ELSE startDate
           newEnd == endDate
       IN  /\ startDate' = newStart
           /\ endDate' = newEnd
           /\ fetchEffectPending' = (newStart # startDate \/ newEnd # endDate)
    /\ filteredFloats' = ComputeFiltered(argoFloats, searchTerm)
    /\ filterEffectDeps' = {}
    /\ UNCHANGED <<argoFloats, loading, error, searchTerm, inflight, db,
                   chatVars, showDateFilter, edits>>

\* lines 85-133; it runs after the fetch effect of the same commit
FilterEffect ==
    /\ filterEffectPending
    /\ ~fetchEffectPending
    /\ LET dateFilters == extractDateFilterFromSearch(searchTerm)
           newStart == IF dateFilters # <<>> THEN dateFilters[1].startDate
                       ELSE startDate
           newEnd == IF dateFilters # <<>> THEN dateFilters[1].endDate
                     ELSE endDate
       IN  /\ startDate' = newStart
           /\ endDate' = newEnd
           /\ fetchEffectPending' = (newStart # startDate \/ newEnd # endDate)
    /\ filteredFloats' = ComputeFiltered(argoFloats, searchTerm)
    /\ filterEffectDeps' = {}
    /\ UNCHANGED <<argoFloats, loading, error, searchTerm, inflight, db,
                   chatVars, showDateFilter, edits>>

\* lines 62-68 and 77 with setError(null) added next to setArgoFloats
FetchSuccess_ClearsError(i) ==
    /\ ~EffectsPending
    /\ i \in 1..Len(inflight)
    /\ ValidRange(inflight[i])
    /\ argoFloats' = LocationsResponse(db, inflight[i])
    /\ loading' = FALSE
    /\ error' = Null
    /\ inflight' = SubSeq(inflight, 1, i - 1)
                       \o SubSeq(inflight, i + 1, Len(inflight))
    /\ filterEffectDeps' = {"argoFloats"}
    /\ UNCHANGED <<filteredFloats, searchTerm, startDate, endDate,
                   fetchEffectPending, db, chatVars, showDateFilter, edits>>

\* lines 62-68 and 77: request i is answered with status 'success'
FetchSuccess(i) ==
    /\ ~EffectsPending
    /\ i \in 1..Len(inflight)
    /\ ValidRange(inflight[i])
    /\ argoFloats' = LocationsResponse(db, inflight[i])
    /\ loading' = FALSE
    /\ inflight' = SubSeq(inflight, 1, i - 1)
                       \o SubSeq(inflight, i + 1, Len(inflight))
    /\ filterEffectDeps' = {"argoFloats"}
    /\ UNCHANGED <<filteredFloats, error, searchTerm, startDate, endDate,
                   fetchEffectPending, db, chatVars, showDateFilter, edits>>

\* lines 70-78 with the list emptied in the catch block
FetchFail_ClearsList(i, msg) ==
    /\ ~EffectsPending
    /\ i \in 1..Len(inflight)
    /\ ValidRange(inflight[i]) \/ msg = InvalidRangeMessage
    /\ error' = msg
    /\ loading' = FALSE
    /\ argoFloats' = <<>>
    /\ filterEffectDeps' = IF argoFloats # <<>> THEN {"argoFloats"} ELSE {}
    /\ inflight' = SubSeq(inflight, 1, i - 1)
                       \o SubSeq(inflight, i + 1, Len(inflight))
    /\ UNCHANGED <<filteredFloats, searchTerm, startDate, endDate,
                   fetchEffectPending, db, chatVars, showDateFilter, edits>>

\* lines 63-65, 70-78: request i fails with message msg
FetchFail(i, msg) ==
    /\ ~EffectsPending
    /\ i \in 1..Len(inflight)
    /\ ValidRange(inflight[i]) \/ msg = InvalidRangeMessage
    /\ error' = msg
    /\ loading' = FALSE
    /\ inflight' = SubSeq(inflight, 1, i - 1)
                       \o SubSeq(inflight, i + 1, Len(inflight))
    /\ UNCHANGED <<argoFloats, filteredFloats, searchTerm, startDate, endDate,
                   fetchEffectPending, filterEffectDeps, db, chatVars,
                   showDateFilter, edits>>

\* line 479: onChange of the search box
TypeSearch(t) ==
    /\ ~EffectsPending
    /\ Len(inflight) < MaxInFlight
    /\ t # searchTerm
    /\ searchTerm' = t
    /\ filterEffectDeps' = {"searchTerm"}
    /\ UNCHANGED <<argoFloats, filteredFloats, loading, error, startDate,
                   endDate, inflight, fetchEffectPending, db, chatVars,
                   showDateFilter>>

\* lines 492-494: the clear button, rendered only for a non-empty term
ClearSearch ==
    /\ ~EffectsPending
    /\ searchTerm # <<>>
    /\ searchTerm' = <<>>
    /\ filterEffectDeps' = {"searchTerm"}
    /\ UNCHANGED <<argoFloats, filteredFloats, loading, error, startDate,
                   endDate, inflight, fetchEffectPending, db, chatVars,
                   showDateFilter>>

\* lines 480-485: the Escape key; setting the same value schedules nothing
EscapeKey ==
    /\ ~EffectsPending
    /\ searchTerm' = <<>>
    /\ filterEffectDeps' = IF searchTerm # <<>> THEN {"searchTerm"} ELSE {}
    /\ UNCHANGED <<argoFloats, filteredFloats, loading, error, startDate,
                   endDate, inflight, fetchEffectPending, db, chatVars,
                   showDateFilter>>

\* line 194: the button that opens and closes the date filter panel
ToggleDateFilter ==
    /\ ~EffectsPending
    /\ showDateFilter' = ~showDateFilter
    /\ UNCHANGED <<argoFloats, filteredFloats, loading, error, searchTerm,
                   startDate, endDate, inflight, fetchEffectPending,
                   filterEffectDeps, db, chatVars>>

\* lines 247-256 with the chosen dates fetched when 'Apply' is pressed
ApplyDateFilter_Refetches ==
    /\ ~EffectsPending
    /\ showDateFilter
    /\ showDateFilter' = FALSE
    /\ fetchEffectPending' = TRUE
    /\ UNCHANGED <<argoFloats, filteredFloats, loading, error, searchTerm,
                   startDate, endDate, inflight, filterEffectDeps, db,
                   chatVars>>

\* lines 247-256: the 'Apply' button of the panel (line 209: rendered only
\* while the panel is open)
ApplyDateFilter ==
    /\ ~EffectsPending
    /\ showDateFilter
    /\ showDateFilter' = FALSE
    /\ UNCHANGED <<argoFloats, filteredFloats, loading, error, searchTerm,
                   startDate, endDate, inflight, fetchEffectPending,
                   filterEffectDeps, db, chatVars>>

\* lines 219-224: onChange of the start date input, which is rendered only
\* while the panel is open (line 209)
SetStartDate(d) ==
    /\ ~EffectsPending
    /\ showDateFilter
    /\ Len(inflight) < MaxInFlight
    /\ d # startDate
    /\ startDate' = d
    /\ fetchEffectPending' = TRUE
    /\ UNCHANGED <<argoFloats, filteredFloats, loading, error, searchTerm,
                   endDate, inflight, filterEffectDeps, db, chatVars,
                   showDateFilter>>

\* lines 234-239: onChange of the end date input (same panel)
SetEndDate(d) ==
    /\ ~EffectsPending
    /\ showDateFilter
    /\ Len(inflight) < MaxInFlight
    /\ d # endDate
    /\ endDate' = d
    /\ fetchEffectPending' = TRUE
    /\ UNCHANGED <<argoFloats, filteredFloats, loading, error, searchTerm,
                   startDate, inflight, filterEffectDeps, db, chatVars,
                   showDateFilter>>

\* One more user event, while the budget of the model lasts
CountEdit == edits < MaxEdits /\ edits' = edits + 1

UserTypes == \E t \in Terms : TypeSearch(t) /\ CountEdit

UserClears == ClearSearch /\ CountEdit

UserEscapes == EscapeKey /\ CountEdit

UserSetsStart == \E d \in UserStartDates : SetStartDate(d) /\ CountEdit

UserSetsEnd == \E d \in UserEndDates : SetEndDate(d) /\ CountEdit

UserTogglesPanel == ToggleDateFilter /\ UNCHANGED edits

UserApplies == ApplyDateFilter /\ UNCHANGED edits

ResponseArrives == \E i \in 1..Len(inflight) : FetchSuccess(i)

RequestFails ==
    \E i \in 1..Len(inflight) :
        \E msg \in ErrorMessages \cup {InvalidRangeMessage} : FetchFail(i, msg)

Next ==
    \/ FetchEffect
    \/ FilterEffect
    \/ ResponseArrives
    \/ RequestFails
    \/ UserTypes
    \/ UserClears
    \/ UserEscapes
    \/ UserSetsStart
    \/ UserSetsEnd
    \/ UserTogglesPanel
    \/ UserApplies

Spec == Init /\ [][Next]_vars

\* React runs every effect it has scheduled, and the browser resolves or
\* rejects every fetch in the end.
\* The filter effect is enabled exactly when it is scheduled and the fetch
\* effect of the commit has run, and its step unschedules it.
FilterEffectDue == filterEffectPending /\ ~fetchEffectPending

\* Weak fairness of the fetch effect, of the filter effect (it does not stay
\* due for ever) and of the completion of a fetch
EffectsAndFetchesProgress ==
    /\ WF_vars(FetchEffect)
    /\ []<>(~FilterEffectDue)
    /\ WF_vars(ResponseArrives \/ RequestFails)

\* The settling specification: the same component, the user acting only
\* when it is at rest, one action at a time, with the terms and date edits
\* that start the chain override -> refetch -> response -> filter effect
SettleTerms == { tYear2021, tPacific2022, tWmo2021 }

SettleTypes ==
    Quiescent /\ (\E t \in SettleTerms : TypeSearch(t)) /\ UNCHANGED edits

SettleClears == Quiescent /\ ClearSearch /\ UNCHANGED edits

SettleSetsStart ==
    Quiescent /\ (\E d \in UserStartDates : SetStartDate(d))
        /\ UNCHANGED edits

SettleSetsEnd ==
    Quiescent /\ (\E d \in UserEndDates : SetEndDate(d)) /\ UNCHANGED edits

SettleToggles == Quiescent /\ ToggleDateFilter /\ UNCHANGED edits

NextSettle ==
    \/ FetchEffect
    \/ FilterEffect
    \/ ResponseArrives
    \/ RequestFails
    \/ SettleTypes
    \/ SettleClears
    \/ SettleSetsStart
    \/ SettleSetsEnd
    \/ SettleToggles

SpecSettle == Init /\ [][NextSettle]_vars /\ EffectsAndFetchesProgress

(***************************************************************************)
(* The matcher specification: the same component, fed with rows of a       *)
(* latitude/longitude grid around every boundary of the keyword            *)
(* predicates and with the whole vocabulary of search terms.               *)
(***************************************************************************)
LatGrid ==
    { -9000, -6001, -6000, -5999, -2301, -2300, -2299, -40, 0, 2299, 2300,
      2301, 2999, 3000, 3001, 5999, 6000, 6001, 9000 }

LonGrid ==
    << -18000, -7001, -7000, -6999, 0, 1999, 2000, 2001, 11999, 12000,
       12001, 18000 >>

\* One row of the grid: ids F1, F2, ..., no cycle, all observed in 2021
GridRow(lat) ==
    [i \in 1..Len(LonGrid) |->
        Float(<<"F">> \o NatToString(i), lat, LonGrid[i], <<>>,
              <<20210100 + i>>)]

\* Records that differ in id and cycle
IdRow ==
    << floatPac042, floatCycle0, floatNoCycle, floatCycle420, floatArctic9,
       floatA, floatB >>

MatchDBs == { GridRow(lat) : lat \in LatGrid } \cup { IdRow }

MatchTerms ==
    { tBlank, tPacific, tAtlantic, tIndian, tNorth, tSouth, tEquatorial,
      kwArctic, kwAntarctic, kwEquator, tSouthern, tTheArctic,
      tNorthPacific, tSouthAtlantic, tAtlanticPacific, tPacificIndian,
      tNorthSouth, tSouthEquatorial, tUpperPacific, tPaddedPacific,
      tMixedNorth, tWmo2021, tUpperWmo, tPac, tCycle42, tZero, tFour,
      tCoord, tNoMatch, tCoordOneDecimal, tCoordRounded, tCoordSpace }

InitMatch == InitView /\ db \in MatchDBs /\ InitChatPanel(TRUE)

MatchTypes == \E t \in MatchTerms : TypeSearch(t) /\ UNCHANGED edits

MatchClears == ClearSearch /\ UNCHANGED edits

NextMatch ==
    \/ FetchEffect
    \/ FilterEffect
    \/ ResponseArrives
    \/ RequestFails
    \/ MatchTypes
    \/ MatchClears

SpecMatch == InitMatch /\ [][NextMatch]_vars

(***************************************************************************)
(* The year specification: the same component, fed with terms that carry   *)
(* four-digit runs in every position the year pattern tells apart.         *)
(***************************************************************************)
YearTerms ==
    { tBlank, tPacific, tYear2021, tPacific2022, tWmo2021, tYear20215,
      tXYear2021, tTwoYears, tGluedThenYear, tYearMonth, tYear1999,
      tYear2100, tYear2099, tYear2000, tYearInParens, tOldThenYear }

YearTypes == \E t \in YearTerms : TypeSearch(t) /\ CountEdit

YearClears == ClearSearch /\ CountEdit

NextYear ==
    \/ FetchEffect
    \/ FilterEffect
    \/ ResponseArrives
    \/ YearTypes
    \/ YearClears

SpecYear == Init /\ [][NextYear]_vars

(***************************************************************************)
(* ChatPanel (frontend/src/components/ChatPanel.tsx) under App, which      *)
(* holds the chat history (Argo_frontend/src/App.tsx)                      *)
(***************************************************************************)
\* ChatPanel.tsx line 275
txtNoResponse ==
    << "N", "o", " ", "r", "e", "s", "p", "o", "n", "s", "e", " ", "f", "r",
       "o", "m", " ", "s", "e", "r", "v", "e", "r" >>

\* line 287
txtErrorPrefix ==
    << "E", "r", "r", "o", "r", ":", " " >>

\* line 269
txtServerErrorPrefix ==
    << "S", "e", "r", "v", "e", "r", " ", "e", "r", "r", "o", "r", ":", " " >>

\* response.statusText of a 500 answer
txtInternalServerError ==
    << "I", "n", "t", "e", "r", "n", "a", "l", " ", "S", "e", "r", "v", "e",
       "r", " ", "E", "r", "r", "o", "r" >>

\* the message of the TypeError a failed fetch rejects with
txtFailedToFetch ==
    << "F", "a", "i", "l", "e", "d", " ", "t", "o", " ", "f", "e", "t", "c",
       "h" >>

\* data.text of an answer
txtReply ==
    << "M", "e", "a", "n", " ", "t", "e", "m", "p", "e", "r", "a", "t", "u",
       "r", "e", ":", " ", "1", "2", ".", "4" >>

\* Texts typed into the chat input
inHi ==
    << "h", "i" >>

inTemp ==
    << "t", "e", "m", "p" >>

inBlank ==
    << " ", " " >>

ChatInputs == { <<>>, inBlank, inHi, inTemp }

\* data.text of a 200 answer; an answer without text gives the empty one
ReplyTexts == { txtReply, <<>> }

\* error.message in the catch block: the non-OK status of line 269 and the
\* rejection of fetch itself
FailureReasons ==
    { txtServerErrorPrefix \o txtInternalServerError, txtFailedToFetch }

\* Array.prototype.slice(-3)
SliceLast3(list) ==
    SubSeq(list, IF Len(list) > 3 THEN Len(list) - 2 ELSE 1, Len(list))

\* The messages prop: App.tsx gives the full panel chatMessages and the
\* compact panel of the sidebar chatMessages.slice(-3)
messages == IF compact THEN SliceLast3(chatMessages) ELSE chatMessages

\* line 423: onChange of the chat input
SetInputMessage(t) ==
    /\ t # inputMessage
    /\ inputMessage' = t
    /\ UNCHANGED <<chatMessages, isTyping, chatInflight, compact, mapVars>>

\* lines 250-265: handleSendMessage up to the await of the fetch; the
\* closure keeps messages and newMessage for the code after the await
handleSendMessage ==
    /\ Trim(inputMessage) # <<>>
    /\ LET newMessage == ChatMessage(Len(messages) + 1, "user", inputMessage)
       IN  /\ chatMessages' = messages \o <<newMessage>>
           /\ chatInflight' =
                  Append(chatInflight,
                         [messages |-> messages, newMessage |-> newMessage])
    /\ inputMessage' = <<>>
    /\ isTyping' = TRUE
    /\ UNCHANGED <<compact, mapVars>>

\* lines 299-304: Enter without Shift in the chat input
handleKeyPress == handleSendMessage

\* lines 428-430: the send button, disabled for a blank input and while
\* isTyping
ClickSend ==
    /\ ~(Trim(inputMessage) = <<>> \/ isTyping)
    /\ handleSendMessage

\* The closure of request i is gone once its code after the await has run.
ChatInflightWithout(i) ==
    SubSeq(chatInflight, 1, i - 1)
        \o SubSeq(chatInflight, i + 1, Len(chatInflight))

\* lines 270-279 and 293-295: request i is answered with text
ChatAnswer(i, text) ==
    /\ i \in 1..Len(chatInflight)
    /\ LET sent == chatInflight[i]
           neridaResponse ==
               ChatMessage(Len(sent.messages) + 2, "nerida",
                           IF text # <<>> THEN text ELSE txtNoResponse)
       IN  chatMessages' = sent.messages \o <<sent.newMessage, neridaResponse>>
    /\ isTyping' = FALSE
    /\ chatInflight' = ChatInflightWithout(i)
    /\ UNCHANGED <<inputMessage, compact, mapVars>>

\* lines 269, 280-295: request i fails, error.message being reason
ChatFailure(i, reason) ==
    /\ i \in 1..Len(chatInflight)
    /\ LET sent == chatInflight[i]
           errorMessage ==
               ChatMessage(Len(sent.messages) + 2, "nerida",
                           txtErrorPrefix \o reason)
       IN  chatMessages' = sent.messages \o <<sent.newMessage, errorMessage>>
    /\ isTyping' = FALSE
    /\ chatInflight' = ChatInflightWithout(i)
    /\ UNCHANGED <<inputMessage, compact, mapVars>>

UserWritesChat == \E t \in ChatInputs : SetInputMessage(t) /\ UNCHANGED edits

UserClicksSend == ClickSend /\ CountEdit

UserPressesEnter == handleKeyPress /\ CountEdit

ChatAnswered ==
    \E i \in 1..Len(chatInflight) :
        \E text \in ReplyTexts : ChatAnswer(i, text) /\ UNCHANGED edits

ChatFailed ==
    \E i \in 1..Len(chatInflight) :
        \E reason \in FailureReasons :
            ChatFailure(i, reason) /\ UNCHANGED edits

\* Either panel of App, MapView left as it starts
InitChat ==
    /\ InitView
    /\ db \in DBs
    /\ \E isCompact \in BOOLEAN : InitChatPanel(isCompact)

NextChat ==
    \/ UserWritesChat
    \/ UserClicksSend
    \/ UserPressesEnter
    \/ ChatAnswered
    \/ ChatFailed

\* A fetch settles: the browser resolves or rejects every request in the end.
SpecChat ==
    InitChat /\ [][NextChat]_vars /\ WF_vars(ChatAnswered \/ ChatFailed)

(***************************************************************************)
(* Properties                                                              *)
(***************************************************************************)
\* The term the matcher receives (line 95)
Term == Trim(ToLowerCase(searchTerm))

\* The filter effect has run on the current searchTerm and argoFloats.
FilterUpToDate == ~filterEffectPending

Kept(float) == \E j \in 1..Len(filteredFloats) : filteredFloats[j] = float

ByRules123(float) ==
    IdRule(float, Term) \/ CoordRule(float, Term) \/ CycleRule(float, Term)

RECURSIVE IsSubsequence(_, _)
IsSubsequence(s, t) ==
    IF s = <<>> THEN TRUE
    ELSE IF t = <<>> THEN FALSE
    ELSE IF Head(s) = Head(t) THEN IsSubsequence(Tail(s), Tail(t))
    ELSE IsSubsequence(s, Tail(t))

\* The bounding boxes and latitude bands as spec.md section 4.2 gives them
AtlanticBox(float) ==
    -7000 <= float.lon /\ float.lon <= 2000 /\ Abs(float.lat) <= 6000

PacificBox(float) ==
    (float.lon >= 12000 \/ float.lon <= -7000) /\ Abs(float.lat) <= 6000

IndianBox(float) ==
    /\ 2000 <= float.lon /\ float.lon <= 12000
    /\ -6000 <= float.lat /\ float.lat <= 3000

NorthBand(float) == float.lat > 2300

SouthBand(float) == float.lat < -2300

EquatorialBand(float) == Abs(float.lat) <= 2300

\* Rule 4 of spec.md section 4.3: some contained basin keyword succeeds
BasinRule(float, term) ==
    \/ Includes(term, kwAtlantic) /\ AtlanticBox(float)
    \/ Includes(term, kwPacific) /\ PacificBox(float)
    \/ Includes(term, kwIndian) /\ IndianBox(float)

\* Rule 5 of spec.md section 4.3: some triggered latitude band succeeds
BandRule(float, term) ==
    \/ (Includes(term, kwNorth) \/ term = kwArctic) /\ NorthBand(float)
    \/ (Includes(term, kwSouth) \/ term = kwAntarctic) /\ SouthBand(float)
    \/ (Includes(term, kwEquatorial) \/ term = kwEquator)
           /\ EquatorialBand(float)

\* C1: for every loaded record and every non-empty trimmed lower-cased term,
\* the filter keeps the record if and only if at least one of the five rules
\* (id, coordinate string, cycle, basin keyword, latitude-band keyword)
\* succeeds.
C1_MatcherIsOrOfFiveRules ==
    (FilterUpToDate /\ Term # <<>>) =>
        \A i \in 1..Len(argoFloats) :
            Kept(argoFloats[i]) <=>
                \/ ByRules123(argoFloats[i])
                \/ BasinRule(argoFloats[i], Term)
                \/ BandRule(argoFloats[i], Term)

\* C2: whenever the search term is empty or only whitespace, the filtered
\* list is the loaded list itself, every record in the same order.
C2_EmptySearchIsIdentity ==
    (FilterUpToDate /\ Trim(searchTerm) = <<>>) =>
        filteredFloats = argoFloats

C2_Witness ==
    /\ FilterUpToDate
    /\ searchTerm = tBlank
    /\ Len(argoFloats) >= 3
    /\ filteredFloats = argoFloats

\* C3: in every quiescent state filteredFloats is an order-preserving
\* subsequence of argoFloats, and neither a change of the search term nor a
\* run of the filter effect changes argoFloats.
C3_FilterOnlySelects ==
    [][ /\ Quiescent' => IsSubsequence(filteredFloats', argoFloats')
        /\ (searchTerm' # searchTerm \/ (filterEffectPending /\ filterEffectDeps' = {}))
               => argoFloats' = argoFloats ]_vars

C3_Witness ==
    /\ Quiescent
    /\ Term # <<>>
    /\ Len(filteredFloats) >= 2
    /\ Len(filteredFloats) < Len(argoFloats)
    /\ filteredFloats[1] # argoFloats[1]

\* The filter effect runs in this step.
FilterEffectRuns == filterEffectPending /\ filterEffectDeps' = {}

\* Year y (2000..2099) stands in the term as a token of its own: its four
\* digits with no letter, digit or underscore on either side.
HasYearToken(term, y) ==
    \E i \in 1..(Len(term) - 3) :
        /\ (i = 1 \/ ~IsWordChar(term[i - 1]))
        /\ (i + 3 = Len(term) \/ ~IsWordChar(term[i + 4]))
        /\ SubSeq(term, i, i + 3) = NatToString(y)

\* The years 2000..2099 that stand in the term as such a token
TokenYears(term) ==
    LET starts == {i \in 1..(Len(term) - 3) :
                      /\ (i = 1 \/ ~IsWordChar(term[i - 1]))
                      /\ (i + 3 = Len(term) \/ ~IsWordChar(term[i + 4]))}
    IN  {y \in 2000..2099 :
            \E i \in starts : SubSeq(term, i, i + 3) = NatToString(y)}

\* Request req asks for the range s..e, a default end being left out.
CarriesRange(req, s, e) ==
    /\ req.start_date = (IF s = 20150101 THEN <<>> ELSE <<s>>)
    /\ req.end_date = (IF e = 20241231 THEN <<>> ELSE <<e>>)

\* C4: when the filter effect runs after the search term changed to one with
\* the year token y, whatever the range was, the range becomes y-01-01 to
\* y-12-31 and a fetch is scheduled exactly when that changed the range; and
\* a scheduled fetch is the very next step and requests the current range.
C4_YearOverride ==
    [][ /\ (FilterEffectRuns /\ "searchTerm" \in filterEffectDeps) =>
               \A y \in TokenYears(searchTerm) :
                   TokenYears(searchTerm) = {y} =>
                       /\ startDate' = y * 10000 + 101
                       /\ endDate' = y * 10000 + 1231
                       /\ fetchEffectPending' =
                              (startDate # startDate' \/ endDate # endDate')
        /\ fetchEffectPending =>
               /\ Len(inflight') = Len(inflight) + 1
               /\ CarriesRange(inflight'[Len(inflight')], startDate, endDate)
               /\ startDate' = startDate
               /\ endDate' = endDate ]_vars

\* A user-chosen start date was requested, then the year 2022 was typed and
\* the request for 2022 went out after it.
C4_Witness ==
    /\ ~EffectsPending
    /\ searchTerm = tPacific2022
    /\ startDate = 20220101
    /\ endDate = 20221231
    /\ Len(inflight) = 2
    /\ inflight[1].start_date = <<20230101>>
    /\ inflight[2] = [start_date |-> <<20220101>>, end_date |-> <<20221231>>]

\* C5: with a year token in the term, a range the user set through the date
\* inputs stays in effect until the search term changes: a run of the filter
\* effect caused only by new argoFloats (the refetch completing) leaves
\* startDate and endDate as they are.
C5_UserRangeOutlivesRefetch ==
    [][ (FilterEffectRuns /\ filterEffectDeps = {"argoFloats"}) =>
            (startDate' = startDate /\ endDate' = endDate) ]_vars

\* C6: searchTerm changes only in a step of the search box, the clear button
\* or the Escape key; a step that changes startDate or endDate, issues a
\* request or completes one leaves searchTerm unchanged.
C6_OneDirectionalCoupling ==
    [][ /\ searchTerm' # searchTerm =>
               (UserTypes \/ UserClears \/ UserEscapes)
        /\ (startDate' # startDate \/ endDate' # endDate
                \/ inflight' # inflight) =>
               searchTerm' = searchTerm ]_vars

\* A date edit and its refetch went through under a standing search term.
C6_Witness ==
    /\ Quiescent
    /\ searchTerm = tNorthPacific
    /\ startDate = 20230101
    /\ endDate = DefaultEndDate
    /\ Len(argoFloats) = 1

\* Whether the term triggers the keyword rule named k
Triggered(term, k) ==
    CASE k = "atlantic" -> Includes(term, kwAtlantic)
      [] k = "pacific" -> Includes(term, kwPacific)
      [] k = "indian" -> Includes(term, kwIndian)
      [] k = "north" -> Includes(term, kwNorth) \/ term = kwArctic
      [] k = "south" -> Includes(term, kwSouth) \/ term = kwAntarctic
      [] k = "equatorial" ->
             Includes(term, kwEquatorial) \/ term = kwEquator

KeywordNames ==
    {"atlantic", "pacific", "indian", "north", "south", "equatorial"}

TriggeredSet(term) == {k \in KeywordNames : Triggered(term, k)}

\* C7 as stated: for a record that rules 1-3 do not match, a term containing
\* 'pacific' keeps it iff it lies in the Pacific box, a term containing
\* 'atlantic' iff in the Atlantic box, a term containing 'indian' iff in the
\* Indian box.
C7_BasinBoxesAnyTerm ==
    (FilterUpToDate /\ Term # <<>>) =>
        \A i \in 1..Len(argoFloats) :
            LET float == argoFloats[i] IN
            ~ByRules123(float) =>
                /\ Includes(Term, kwPacific) =>
                       (Kept(float) <=> PacificBox(float))
                /\ Includes(Term, kwAtlantic) =>
                       (Kept(float) <=> AtlanticBox(float))
                /\ Includes(Term, kwIndian) =>
                       (Kept(float) <=> IndianBox(float))

\* C7 (amended): for a record that rules 1-3 do not match and a term whose
\* only region or latitude-band keyword is 'pacific' (respectively
\* 'atlantic', 'indian'), the record is kept iff it lies in the Pacific
\* (Atlantic, Indian) box, all bounds inclusive.
C7_BasinBoxes ==
    (FilterUpToDate /\ Term # <<>>) =>
        \A i \in 1..Len(argoFloats) :
            LET float == argoFloats[i] IN
            ~ByRules123(float) =>
                /\ TriggeredSet(Term) = {"pacific"} =>
                       (Kept(float) <=> PacificBox(float))
                /\ TriggeredSet(Term) = {"atlantic"} =>
                       (Kept(float) <=> AtlanticBox(float))
                /\ TriggeredSet(Term) = {"indian"} =>
                       (Kept(float) <=> IndianBox(float))

\* 'pacific' over the row at latitude -60: the record on the corner of the
\* box (lon -70) is kept by the box alone, its neighbour at -69.99 is not.
C7_Witness ==
    /\ FilterUpToDate
    /\ Term = kwPacific
    /\ \E i, j \in 1..Len(argoFloats) :
           /\ argoFloats[i].lat = -6000
           /\ argoFloats[i].lon = -7000
           /\ ~ByRules123(argoFloats[i])
           /\ Kept(argoFloats[i])
           /\ argoFloats[j].lon = -6999
           /\ ~Kept(argoFloats[j])

\* C8 as stated: for a record that rules 1-4 do not match, a term that
\* contains 'north' or equals 'arctic' keeps it iff lat > 23, one that
\* contains 'south' or equals 'antarctic' iff lat < -23, one that contains
\* 'equatorial' or equals 'equator' iff |lat| <= 23.
C8_LatitudeBandsAnyTerm ==
    (FilterUpToDate /\ Term # <<>>) =>
        \A i \in 1..Len(argoFloats) :
            LET float == argoFloats[i] IN
            (~ByRules123(float) /\ ~BasinRule(float, Term)) =>
                /\ Triggered(Term, "north") =>
                       (Kept(float) <=> NorthBand(float))
                /\ Triggered(Term, "south") =>
                       (Kept(float) <=> SouthBand(float))
                /\ Triggered(Term, "equatorial") =>
                       (Kept(float) <=> EquatorialBand(float))

\* C8 (amended): for a record that rules 1-3 do not match and a term whose
\* only region or latitude-band keyword is the 'north' one (contains 'north'
\* or equals 'arctic'), the record is kept iff lat > 23; likewise 'south' /
\* 'antarctic' iff lat < -23 and 'equatorial' / 'equator' iff |lat| <= 23;
\* and a term that triggers no keyword (such as 'the arctic', which only
\* contains 'arctic') keeps no such record.
C8_LatitudeBands ==
    (FilterUpToDate /\ Term # <<>>) =>
        \A i \in 1..Len(argoFloats) :
            LET float == argoFloats[i] IN
            ~ByRules123(float) =>
                /\ TriggeredSet(Term) = {"north"} =>
                       (Kept(float) <=> NorthBand(float))
                /\ TriggeredSet(Term) = {"south"} =>
                       (Kept(float) <=> SouthBand(float))
                /\ TriggeredSet(Term) = {"equatorial"} =>
                       (Kept(float) <=> EquatorialBand(float))
                /\ TriggeredSet(Term) = {} => ~Kept(float)

\* 'antarctic' over the row at latitude -23.01: kept by the band alone.
C8_Witness ==
    /\ FilterUpToDate
    /\ Term = kwAntarctic
    /\ Len(argoFloats) > 0
    /\ \A i \in 1..Len(argoFloats) :
           /\ argoFloats[i].lat = -2301
           /\ (~ByRules123(argoFloats[i]) => Kept(argoFloats[i]))
    /\ \E i \in 1..Len(argoFloats) : ~ByRules123(argoFloats[i])

\* C9: a record whose cycle is present (0 included) is kept for every term
\* that is a substring of the cycle's decimal string; a record without a
\* cycle is kept only by the id, coordinate or keyword rules.
C9_CycleRule ==
    (FilterUpToDate /\ Term # <<>>) =>
        \A i \in 1..Len(argoFloats) :
            LET float == argoFloats[i] IN
            /\ (float.cycle # <<>>
                    /\ Includes(IntToString(float.cycle[1]), Term)) =>
                   Kept(float)
            /\ (float.cycle = <<>> /\ Kept(float)) =>
                   \/ IdRule(float, Term)
                   \/ CoordRule(float, Term)
                   \/ KeywordRule(float, Term)

\* C10: the filtered list is the one the upper-cased term and the term padded
\* with spaces give, and every record whose lower-cased id contains the
\* lower-cased trimmed term is kept.
C10_CaseAndPaddingInsensitive ==
    FilterUpToDate =>
        /\ filteredFloats = ComputeFiltered(argoFloats, ToUpperCase(searchTerm))
        /\ filteredFloats =
               ComputeFiltered(argoFloats, <<" ">> \o searchTerm \o <<" ", " ">>)
        /\ \A i \in 1..Len(argoFloats) :
               Includes(ToLowerCase(argoFloats[i].id), Term) =>
                   Kept(argoFloats[i])

\* 'WMO_2021' keeps WMO_2021_PAC_042 by its id and nothing else.
C10_Witness ==
    /\ FilterUpToDate
    /\ searchTerm = tUpperWmo
    /\ filteredFloats = <<floatPac042>>
    /\ Len(argoFloats) > 1

\* x hundredths written with one decimal / with no decimals: the nearest
\* tenth / unit of the magnitude (a tie going away from zero) behind the sign
\* of x.
OneDecimal(x) ==
    LET n == (2 * Abs(x) + 10) \div 20
    IN  (IF x < 0 THEN <<"-">> ELSE <<>>)
            \o NatToString(n \div 10) \o <<".">> \o NatToString(n % 10)

NoDecimals(x) ==
    (IF x < 0 THEN <<"-">> ELSE <<>>) \o NatToString((2 * Abs(x) + 100) \div 200)

\* The term is a piece of '<lat>,<lon>' written with one or with no decimals.
CoordinateSubstring(float, term) ==
    \/ Includes(OneDecimal(float.lat) \o <<",">> \o OneDecimal(float.lon), term)
    \/ Includes(NoDecimals(float.lat) \o <<",">> \o NoDecimals(float.lon), term)

\* C11: a record is kept whenever the term is a substring of
\* '<lat to 1 decimal>,<lon to 1 decimal>' or of
\* '<lat to 0 decimals>,<lon to 0 decimals>'; a record that the id, cycle and
\* keyword rules do not keep is kept in no other case.
C11_CoordinateRule ==
    (FilterUpToDate /\ Term # <<>>) =>
        \A i \in 1..Len(argoFloats) :
            LET float == argoFloats[i] IN
            /\ CoordinateSubstring(float, Term) => Kept(float)
            /\ (Kept(float) /\ ~IdRule(float, Term) /\ ~CycleRule(float, Term)
                    /\ ~KeywordRule(float, Term)) =>
                   CoordinateSubstring(float, Term)

\* '5.6,-142.8' keeps 25.63,-142.84 by its one-decimal string and nothing
\* else of the list.
C11_Witness ==
    /\ FilterUpToDate
    /\ searchTerm = tCoordOneDecimal
    /\ filteredFloats = <<floatPac042>>
    /\ Len(argoFloats) > 1

\* Request i leaves the in-flight requests in this step.
Completes(i) ==
    /\ i \in 1..Len(inflight)
    /\ inflight' = SubSeq(inflight, 1, i - 1)
                       \o SubSeq(inflight, i + 1, Len(inflight))

C13_SearchTermNeverAnError ==
    [][/\ (searchTerm' # searchTerm) => error' = error
       /\ FilterEffectRuns =>
              /\ error' = error
              /\ IsSubsequence(filteredFloats', argoFloats)
       /\ (error' # error) =>
              /\ \E i \in 1..Len(inflight) : Completes(i)
              /\ error' # Null
              /\ searchTerm' = searchTerm]_vars

\* A term matching nothing was evaluated over a loaded list: the result is
\* empty and there is no error.
C13_Witness ==
    /\ FilterUpToDate
    /\ searchTerm = tNoMatch
    /\ argoFloats # <<>>
    /\ filteredFloats = <<>>
    /\ error = Null

\* The record carries a time and it lies in the inclusive range [s, e].
TimeWithin(float, s, e) ==
    float.time # <<>> => (s <= float.time[1] /\ float.time[1] <= e)

\* C14: in every quiescent state without a fetch error, every record of
\* argoFloats and of filteredFloats that carries a time has it within the
\* current [startDate, endDate].
C14_QuiescentListWithinRange ==
    (Quiescent /\ error = Null) =>
        /\ \A i \in 1..Len(argoFloats) :
               TimeWithin(argoFloats[i], startDate, endDate)
        /\ \A i \in 1..Len(filteredFloats) :
               TimeWithin(filteredFloats[i], startDate, endDate)

\* A locations request is sent in this step; it is the last one in flight.
RequestSent == Len(inflight') = Len(inflight) + 1

\* C15: every locations request sent carries start_date (with the current
\* startDate) iff startDate is not 2015-01-01 and carries end_date (with the
\* current endDate) iff endDate is not 2024-12-31, one independently of the
\* other; with both at their defaults it has no date parameter.
C15_DateParamsIndependent ==
    [][RequestSent =>
          LET req == inflight'[Len(inflight')] IN
          /\ (req.start_date # <<>>) <=> (startDate # 20150101)
          /\ (req.start_date # <<>>) => req.start_date = <<startDate>>
          /\ (req.end_date # <<>>) <=> (endDate # 20241231)
          /\ (req.end_date # <<>>) => req.end_date = <<endDate>>
          /\ (startDate = 20150101 /\ endDate = 20241231) =>
                 req = [start_date |-> <<>>, end_date |-> <<>>] ]_vars

\* A request sent with the end date moved and the start date at its default
\* carries end_date alone.
C15_Witness ==
    /\ startDate = DefaultStartDate
    /\ endDate # DefaultEndDate
    /\ inflight # <<>>
    /\ inflight[Len(inflight)] = [start_date |-> <<>>, end_date |-> <<endDate>>]

\* C16: there is no draft state. Every step that changes startDate or
\* endDate (a date input or a year override) schedules the locations fetch at
\* once, and a scheduled fetch is sent in the very next step for the range as
\* it then is; a step that opens or closes the date filter panel ('Apply'
\* included) changes nothing else; and every step that changes the search
\* term schedules the filter effect, whose run evaluates the filter over the
\* argoFloats and the term of that moment.
C16_NoDraftState ==
    [][ /\ (startDate' # startDate \/ endDate' # endDate) => fetchEffectPending'
        /\ fetchEffectPending =>
               /\ RequestSent
               /\ CarriesRange(inflight'[Len(inflight')], startDate, endDate)
               /\ showDateFilter' = showDateFilter
        /\ (showDateFilter' # showDateFilter) =>
               UNCHANGED <<argoFloats, filteredFloats, loading, error,
                           searchTerm, startDate, endDate, inflight,
                           fetchEffectPending, filterEffectDeps>>
        /\ (searchTerm' # searchTerm) => "searchTerm" \in filterEffectDeps'
        /\ FilterEffectRuns =>
               filteredFloats' = ComputeFiltered(argoFloats, searchTerm) ]_vars

\* The start date was picked in the open panel and its request is in flight
\* while the panel is still open.
C16_Witness ==
    /\ showDateFilter
    /\ ~EffectsPending
    /\ startDate = 20200101
    /\ inflight # <<>>
    /\ inflight[Len(inflight)].start_date = <<20200101>>

\* The request for the range [s, e]
RequestFor(s, e) ==
    [start_date |-> IF s = 20150101 THEN <<>> ELSE <<s>>,
     end_date   |-> IF e = 20241231 THEN <<>> ELSE <<e>>]

\* C17: once every locations fetch has completed, none of them with an
\* error, argoFloats holds the response to the request for the current
\* startDate/endDate, in whatever order the responses arrived.
C17_LastIssuedRequestWins ==
    (Quiescent /\ error = Null) =>
        argoFloats = LocationsResponse(db, RequestFor(startDate, endDate))

\* list is base followed by the user's message and one nerida message text.
IsExchangeAfter(list, base, userText, neridaText) ==
    /\ Len(list) = Len(base) + 2
    /\ SubSeq(list, 1, Len(base)) = base
    /\ list[Len(base) + 1].sender = "user"
    /\ list[Len(base) + 1].message = userText
    /\ list[Len(base) + 2].sender = "nerida"
    /\ list[Len(base) + 2].message = neridaText

\* C18: a chat request that fails leaves in chatMessages the list the panel
\* had at send time, the user's message and one nerida message
\* 'Error: <reason>'; isTyping is true as long as a chat request is pending,
\* and it always returns to false.
C18_ChatFailureKeepsExchange ==
    /\ [][\A i \in 1..Len(chatInflight) : \A reason \in FailureReasons :
              ChatFailure(i, reason) =>
                  IsExchangeAfter(chatMessages', chatInflight[i].messages,
                                  chatInflight[i].newMessage.message,
                                  <<"E", "r", "r", "o", "r", ":", " ">>
                                      \o reason)]_vars
    /\ [](chatInflight # <<>> => isTyping)
    /\ (isTyping ~> ~isTyping)

\* The four digits of year y stand at position i of the term with no letter,
\* digit or underscore before or after them.
YearTokenAt(term, y, i) ==
    /\ i + 3 <= Len(term)
    /\ (i = 1 \/ ~IsWordChar(term[i - 1]))
    /\ (i + 3 = Len(term) \/ ~IsWordChar(term[i + 4]))
    /\ SubSeq(term, i, i + 3) = NatToString(y)

\* The positions of the term where a year token 2000..2099 stands
YearTokenPositions(term) ==
    {i \in 1..Len(term) : \E z \in 2000..2099 : YearTokenAt(term, z, i)}

\* The range of year y
RangeOfYear(y) ==
    [startDate |-> y * 10000 + 101, endDate |-> y * 10000 + 1231]

\* C19: extractDateFilterFromSearch returns y-01-01 .. y-12-31 for the
\* leftmost delimited token y = 20dd of the raw term and null when there is
\* none (a 20dd run next to a letter, digit or underscore is no token); and
\* a run of the filter effect sets the range accordingly, leaving it alone on
\* null.
C19_YearTokenDetection ==
    /\ [](LET found == extractDateFilterFromSearch(searchTerm)
              tokens == YearTokenPositions(searchTerm)
          IN  /\ (tokens = {}) <=> (found = <<>>)
              /\ \A i \in tokens :
                     (\A j \in tokens : i <= j) =>
                         \A y \in 2000..2099 :
                             YearTokenAt(searchTerm, y, i) =>
                                 found = <<RangeOfYear(y)>>)
    /\ [][FilterEffectRuns =>
              LET tokens == YearTokenPositions(searchTerm)
              IN  /\ (tokens = {}) =>
                         (startDate' = startDate /\ endDate' = endDate)
                  /\ \A i \in tokens :
                         (\A j \in tokens : i <= j) =>
                             \A y \in 2000..2099 :
                                 YearTokenAt(searchTerm, y, i) =>
                                     /\ startDate' = RangeOfYear(y).startDate
                                     /\ endDate' = RangeOfYear(y).endDate]_vars

\* 'x2021 2022' was evaluated over the default range: the glued run was
\* passed over and 2022 applied.
C19_Witness ==
    /\ ~EffectsPending
    /\ searchTerm = tGluedThenYear
    /\ startDate = 20220101
    /\ endDate = 20221231
    /\ edits = 1

\* The basin predicates of the filter callback that the record satisfies
BasinsOf(float) ==
    {b \in {"atlantic", "pacific", "indian"} :
        \/ b = "atlantic" /\ InAtlantic(float)
        \/ b = "pacific" /\ InPacific(float)
        \/ b = "indian" /\ InIndian(float)}

\* C20: a loaded record satisfies at most one basin predicate unless its lon
\* is exactly -70, 20 or 120; at least one when -60 <= lat <= 30; and none
\* when |lat| > 60 or when 30 < lat <= 60 and 20 < lon < 120.
C20_BasinCoverage ==
    \A i \in 1..Len(argoFloats) :
        LET float == argoFloats[i]
            n == Cardinality(BasinsOf(float))
        IN  /\ (float.lon \notin {-7000, 2000, 12000}) => n <= 1
            /\ (-6000 <= float.lat /\ float.lat <= 3000) => n >= 1
            /\ (\/ float.lat > 6000
                \/ float.lat < -6000
                \/ /\ 3000 < float.lat /\ float.lat <= 6000
                   /\ 2000 < float.lon /\ float.lon < 12000) => n = 0

\* A row at lat 30.01 is loaded and filtered by 'indian': the record at
\* lon 20 lies in the atlantic box only, the one at lon 20.01 in no box, and
\* neither is kept.
C20_Witness ==
    /\ FilterUpToDate
    /\ Term = kwIndian
    /\ \E i, j \in 1..Len(argoFloats) :
           /\ argoFloats[i].lat = 3001
           /\ argoFloats[i].lon = 2000
           /\ BasinsOf(argoFloats[i]) = {"atlantic"}
           /\ argoFloats[j].lon = 2001
           /\ BasinsOf(argoFloats[j]) = {}
           /\ ~Kept(argoFloats[i])
           /\ ~Kept(argoFloats[j])

\* C21: for the term 'southern' a record that the id, coordinate and cycle
\* rules do not match is kept iff lat < -23, at every longitude.
C21_SouthernIsSouthBand ==
    (FilterUpToDate /\ Term = <<"s", "o", "u", "t", "h", "e", "r", "n">>) =>
        \A i \in 1..Len(argoFloats) :
            LET float == argoFloats[i] IN
            ~ByRules123(float) => (Kept(float) <=> float.lat < -2300)

\* 'southern' over the row at latitude -23.01: every record of the row, from
\* lon -180 to lon 180, is kept.
C21_Witness ==
    /\ FilterUpToDate
    /\ searchTerm = tSouthern
    /\ Len(argoFloats) = Len(LonGrid)
    /\ filteredFloats = argoFloats
    /\ \A i \in 1..Len(argoFloats) :
           argoFloats[i].lat = -2301 /\ ~ByRules123(argoFloats[i])

\* C22: the effect chain terminates: whenever an effect is scheduled or a
\* fetch is in flight, MapView reaches a quiescent state (no effect
\* scheduled, no fetch in flight), given that effects run and fetches
\* complete.
C22_EffectChainTerminates == (~Quiescent) ~> Quiescent

\* The year 2021 was typed, the override refetched, the response re-ran the
\* filter effect, and the component came to rest on the 2021 list.
C22_Witness ==
    /\ Quiescent
    /\ searchTerm = tYear2021
    /\ startDate = 20210101
    /\ endDate = 20211231
    /\ error = Null
    /\ argoFloats # <<>>
    /\ Len(filteredFloats) = 1


\* C23: a step that changes the search term leaves startDate and endDate as
\* they are; a run of the filter effect for a term without a year token
\* leaves them as they are and schedules no fetch; and while the term
\* carries no year token the range changes only through the date inputs, so
\* the range of an earlier year search stays and is not put back to
\* 2015-01-01..2024-12-31 by clearing the box or pressing Escape.
C23_NoYearTokenKeepsRange ==
    [][ /\ searchTerm' # searchTerm =>
               (startDate' = startDate /\ endDate' = endDate)
        /\ (FilterEffectRuns /\ TokenYears(searchTerm) = {}) =>
               /\ startDate' = startDate
               /\ endDate' = endDate
               /\ ~fetchEffectPending'
        /\ (TokenYears(searchTerm') = {}
                /\ (startDate' # startDate \/ endDate' # endDate)) =>
               (UserSetsStart \/ UserSetsEnd) ]_vars

\* The year 2021 was searched and fetched, then the box was cleared: the
\* range of 2021 is still the one in force.
C23_Witness ==
    /\ Quiescent
    /\ searchTerm = <<>>
    /\ startDate = 20210101
    /\ endDate = 20211231
    /\ filteredFloats = argoFloats
    /\ inflight = <<>>

\* The float markers are drawn (line 398).
MarkersRendered == ~loading /\ error = Null

\* C24: once error is set no step clears it, a step that completes a request
\* and brings a new argoFloats included, and from then on the float markers
\* are not drawn.
C24_ErrorIsSticky ==
    [][error # Null =>
           /\ error' # Null
           /\ ~MarkersRendered'
           /\ \A i \in 1..Len(inflight) :
                  (Completes(i) /\ argoFloats' # argoFloats) =>
                      error' = error]_vars

\* The request for the default range failed and the one for the year 2021
\* was answered: its list is loaded and the error still stands.
C24_Witness ==
    /\ Quiescent
    /\ inflight = <<>>
    /\ edits = 1
    /\ searchTerm = tYear2021
    /\ error # Null
    /\ ~loading
    /\ argoFloats = LocationsResponse(db, BuildParams(20210101, 20211231))
    /\ argoFloats # LocationsResponse(db, BuildParams(DefaultStartDate,
                                                      DefaultEndDate))
    /\ filteredFloats # <<>>

\* C25: the initial range has startDate <= endDate, and every step keeps it
\* so unless it is a date edit outside the bounds of the inputs (a new start
\* after the current end, a new end before the current start): the edits
\* within the bounds and the year override, which sets both ends, keep it.
C25_RangeOrdered ==
    /\ startDate <= endDate
    /\ [][(/\ startDate <= endDate
           /\ UserSetsStart => startDate' <= endDate
           /\ UserSetsEnd => endDate' >= startDate) =>
              startDate' <= endDate']_vars

\* The end was moved to 2021-12-31, within the bounds, and while that request
\* was pending the year 2022, after that end, was searched: both ends moved.
C25_Witness ==
    /\ ~EffectsPending
    /\ showDateFilter
    /\ searchTerm = tPacific2022
    /\ startDate = 20220101
    /\ endDate = 20221231
    /\ Len(inflight) = 2
    /\ inflight[1] = [start_date |-> <<>>, end_date |-> <<20211231>>]
    /\ inflight[2] = [start_date |-> <<20220101>>, end_date |-> <<20221231>>]

\* The terms 'north', 'south' and 'equatorial' whose keyword branch returns
\* true for the record
BandTermsSelecting(float) ==
    {t \in {kwNorth, kwSouth, kwEquatorial} : KeywordRule(float, t)}

\* C26: every loaded record, at any latitude from -90 to 90, satisfies
\* exactly one of the three latitude-band predicates, and exactly one of the
\* terms 'north', 'south' and 'equatorial' selects it through the band rule;
\* when the term is one of the three, a record that rules 1-3 do not match is
\* kept exactly when the term is that one.
C26_BandsPartition ==
    \A i \in 1..Len(argoFloats) :
        LET float == argoFloats[i] IN
        /\ float.lat >= -9000 /\ float.lat <= 9000
        /\ Cardinality({b \in {"north", "south", "equatorial"} :
               \/ b = "north" /\ InNorth(float)
               \/ b = "south" /\ InSouth(float)
               \/ b = "equatorial" /\ InEquatorial(float)}) = 1
        /\ Cardinality(BandTermsSelecting(float)) = 1
        /\ (NorthBand(float) <=> BandTermsSelecting(float) = {kwNorth})
        /\ (SouthBand(float) <=> BandTermsSelecting(float) = {kwSouth})
        /\ (EquatorialBand(float)
                <=> BandTermsSelecting(float) = {kwEquatorial})
        /\ (/\ FilterUpToDate
            /\ Term \in {kwNorth, kwSouth, kwEquatorial}
            /\ ~ByRules123(float)) =>
               (Kept(float) <=> Term \in BandTermsSelecting(float))

\* 'equatorial' over the row at latitude 23 exactly: every record of it is
\* kept by the band, which neither 'north' nor 'south' would select.
C26_Witness ==
    /\ FilterUpToDate
    /\ Term = kwEquatorial
    /\ Len(argoFloats) > 0
    /\ \A i \in 1..Len(argoFloats) :
           /\ argoFloats[i].lat = 2300
           /\ ~ByRules123(argoFloats[i])
           /\ Kept(argoFloats[i])
           /\ BandTermsSelecting(argoFloats[i]) = {kwEquatorial}

\* List s is the beginning of list t.
IsPrefix(s, t) == Len(s) <= Len(t) /\ SubSeq(t, 1, Len(s)) = s

\* C27: the chat history only grows at its end: in every step of either
\* panel, the chatMessages of before is a prefix of the chatMessages of
\* after.
C27_ChatAppendOnly == [][IsPrefix(chatMessages, chatMessages')]_vars

\* C28: at most one chat request is pending; no send starts while isTyping,
\* from the button or from the Enter key; and the step that settles a
\* request keeps every message stored by then.
C28_OneChatRequestInFlight ==
    /\ [](Len(chatInflight) <= 1)
    /\ [][isTyping => Len(chatInflight') <= Len(chatInflight)]_vars
    /\ [][Len(chatInflight') < Len(chatInflight) =>
              IsPrefix(chatMessages, chatMessages')]_vars

\* C29: no two messages of chatMessages have the same id.
C29_MessageIdsUnique ==
    \A i, j \in 1..Len(chatMessages) :
        i # j => chatMessages[i].id # chatMessages[j].id
=============================================================================
